---- MODULE Spec2Model ----
\* File and Directory Shredder, version 10.4c: the walker (main, processPath)
\* and the per-file shred engine (shredFile with hasWritePermission,
\* changePermissions and the overwrite loop), over a small file system.
EXTENDS Integers, Sequences, FiniteSets, TLC

----------------------------------------------------------------------------
\* Bounds of the model.

\* number of path arguments on the command line (a directory argument
\* already makes one run shred several files in a row)
MaxArgs == 1
\* largest value of -n / --overwrite-count that is explored
MaxPasses == 2
\* longest text given to -n / --overwrite-count
MaxCountLen == 2
\* longest command line whose paths are fixed before the walk starts
MaxWalkArgs == 2
\* largest argc of the command lines that are parsed token by token
MaxArgc == 4

\* Program constants.

\* while (attempts < 10)
MaxOpenAttempts == 10

----------------------------------------------------------------------------
\* The file system the runs work on.  Paths are strings; every object sits
\* at its path, in the temporary directory (after the rename) or nowhere.

Files == {"a", "e", "ro", "g", "t", "d/f", "n/s/f"}
Links == {"l", "dl", "d/l"}
Dirs == {"d", "n", "n/s"}
Objects == Files \cup Links \cup Dirs

\* what a command line can name: files, a directory, symlinks, a dangling
\* symlink and a path that does not exist
UserPaths == {"a", "e", "ro", "g", "d", "l", "dl", "x"}

\* text stored in a symbolic link (fs::read_symlink)
LinkTarget(p) == IF p \in {"l", "d/l"} THEN "t" ELSE "gone"

\* order in which the recursive iterator yields the entries of a directory
DirEntries(d) ==
    CASE d = "d" -> <<"d/f", "d/l">>
      [] d = "n" -> <<"n/s", "n/s/f">>
      [] d = "n/s" -> <<"n/s/f">>
      [] OTHER -> <<>>

\* fs::file_size; the engine never changes the size of a file
FileSize(f) == IF f = "e" THEN 0 ELSE 2

\* read/write bits of the mode triple that hasWritePermission selects
\* (owner, group or others) for the invoking user
ModeRW == [r |-> TRUE, w |-> TRUE]
ModeNone == [r |-> FALSE, w |-> FALSE]
InitMode(f) == IF f \in {"ro", "g"} THEN [r |-> TRUE, w |-> FALSE] ELSE ModeRW

\* owner of a file: the invoking user or somebody else
Owner(f) == IF f = "g" THEN "other" ELSE "invoker"

\* access the kernel grants beyond the selected triple (supplementary
\* groups, ACLs), as access(2) reports it
ExtraAccess(f) == IF f = "g" THEN {"w"} ELSE {}

----------------------------------------------------------------------------
VARIABLES
    Config,             \* struct config after parseArguments, and the euid
    linked,             \* where each object is: "path", "temp", "none"
    mode,               \* read/write bits of each regular file
    data,               \* contents of each regular file
    wc,                 \* struct wPerm (global, survives from file to file)
    isProgramError,     \* struct pgrm
    exitStatus,         \* value main returns, -1 while running
    pc,                 \* position of the single thread
    argn,               \* number of command-line paths taken so far
    path,               \* processPath's argument
    entryIdx,           \* position of the recursive directory iterator
    filePath,           \* shredFile's argument
    verificationFailed, \* shredFile's local flag
    attempts,           \* shredFile's open retry counter
    i,                  \* shredFile's pass counter
    file,               \* the fstream: "closed", "good", "fail"
    obfuscatedPath,     \* "" or "temp" once the temp path was computed
    ret,                \* what the last shredFile call returned
    failedAt,           \* pass in which a write first failed, 0 if none
    steps,              \* what this shredFile call did so far, in order
    logged,             \* log levels emitted for the current path or file
    snap,               \* the file system when this shredFile call began
    fileSize,           \* overwriteWithRandomData's parameter
    bufferSize,         \* what getOptimalBlockSize returned to this pass
    offset,             \* the block loop's variable
    spass,              \* the pattern loop's variable (int pass, line 894)
    lastRandomData,     \* the bytes kept for the verification
    content,            \* the bytes of the file on disk
    writes,             \* the writes of the current pass that reached the file
    queries,            \* calls of getOptimalBlockSize for the current file
    passResult,         \* what the last overwriteWithRandomData returned
    hashRet,            \* int ret of the verification (line 952), -1 if none
    once,               \* what the previous shredFile call left behind
    fileArgs,           \* main's vector of paths, where a run fixes it
    argv,               \* the command line parseArguments works on
    argi,               \* parseArguments' int i, the argument in hand
    argj,               \* the short-flag loop's size_t j
    st_mode,            \* changePermissions: fileStat.st_mode of the file
    isExecutable,       \* changePermissions' local flag
    chmodMode,          \* the mode changePermissions gave to chmod, -1 if none
    openCount,          \* syncFile's loop variable
    syncHandle,         \* syncFile's FILE* file: "null", "open", "closed"
    synced              \* whether fsync was called on the file

parsev == <<argv, argi, argj>>
permv == <<st_mode, isExecutable, chmodMode>>
syncv == <<openCount, syncHandle, synced>>
cfgv == <<Config, fileArgs, parsev, permv, syncv>>
fsv == <<linked, mode, data>>
walkv == <<argn, path, entryIdx>>
engv == <<filePath, verificationFailed, attempts, i, file, obfuscatedPath,
          failedAt, steps, snap>>
kernv == <<fileSize, bufferSize, offset, spass, lastRandomData, content,
           writes, queries, passResult, hashRet>>
vars == <<Config, linked, mode, data, wc, isProgramError, exitStatus, pc,
          argn, path, entryIdx, filePath, verificationFailed, attempts, i,
          file, obfuscatedPath, ret, failedAt, steps, logged, snap,
          fileSize, bufferSize, offset, spass, lastRandomData, content,
          writes, queries, passResult, hashRet, once, fileArgs, argv, argi,
          argj, st_mode, isExecutable, chmodMode, openCount, syncHandle,
          synced>>

----------------------------------------------------------------------------
\* Queries on the file system (std::filesystem follows symbolic links in
\* status, is_directory, is_regular_file, is_empty and file_size).

Exists(p) == p \in Objects /\ linked[p] = "path"

IsSymlink(p) == p \in Links /\ Exists(p)

\* the object a path leads to once symbolic links are followed
Resolve(p) == IF p \in Links THEN LinkTarget(p) ELSE p

is_directory(p) == Exists(p) /\ Resolve(p) \in Dirs /\ Exists(Resolve(p))

is_regular_file(p) == Exists(p) /\ Resolve(p) \in Files /\ Exists(Resolve(p))

\* an emptiness test that does not count subdirectories
DirIsEmptyOfFiles(d) ==
    \A k \in 1..Len(DirEntries(d)) :
        DirEntries(d)[k] \in Dirs \/ ~Exists(DirEntries(d)[k])

\* nothing exists beneath d (a directory with an entry beneath it has a
\* direct entry)
DirIsEmpty(d) ==
    \A k \in 1..Len(DirEntries(d)) : ~Exists(DirEntries(d)[k])

\* fs::is_empty on a path that leads to a regular file or a directory
is_empty(p) ==
    IF Resolve(p) \in Dirs THEN DirIsEmpty(Resolve(p))
    ELSE FileSize(Resolve(p)) = 0

\* access(path, W_OK / R_OK) == 0 when the modes are m
accessIn(m, f, bit) == Config.euidRoot \/ m[f][bit] \/ bit \in ExtraAccess(f)

access(f, bit) == accessIn(mode, f, bit)

\* chmod(2) and fs::permissions succeed only for the owner and for root
CanChmod(f) == Config.euidRoot \/ Owner(f) = "invoker"

FileSystem == [linked |-> linked, mode |-> mode, data |-> data]

\* the file system once the directory entry p is removed: the contents and
\* the mode of a regular file go with its last link
Unlinked(fs, p) ==
    [linked |-> [fs.linked EXCEPT ![p] = "none"],
     mode |-> IF p \in Files THEN [fs.mode EXCEPT ![p] = ModeNone] ELSE fs.mode,
     data |-> IF p \in Files THEN [fs.data EXCEPT ![p] = "none"] ELSE fs.data]

Did(s) == \E k \in 1..Len(steps) : steps[k] = s


\* the file system before the run
InitFileSystem ==
    [linked |-> [o \in Objects |-> "path"],
     mode |-> [f \in Files |-> InitMode(f)],
     data |-> [f \in Files |-> "orig"]]

\* value of snap while no shredFile call is running
NoSnapshot == <<>>

----------------------------------------------------------------------------
\* parseArguments: the text that follows -n / --overwrite-count.  A text is
\* a sequence of characters.

Digits == <<"0", "1", "2", "3", "4", "5", "6", "7", "8", "9">>

isdigit(c) == \E d \in 1..Len(Digits) : Digits[d] = c

DigitValue(c) == (CHOOSE d \in 1..Len(Digits) : Digits[d] = c) - 1

\* value of the run of digits of t that starts at position k, after acc
RECURSIVE DigitRun(_, _, _)
DigitRun(t, k, acc) ==
    IF k > Len(t) \/ ~isdigit(t[k]) THEN acc
    ELSE DigitRun(t, k + 1, 10 * acc + DigitValue(t[k]))

\* std::stoi reads an optional sign, then digits up to the first other
\* character; it throws std::invalid_argument when no digit follows the sign
stoiFirst(t) == IF Len(t) >= 1 /\ t[1] \in {"-", "+"} THEN 2 ELSE 1

stoiThrows(t) == stoiFirst(t) > Len(t) \/ ~isdigit(t[stoiFirst(t)])

stoi(t) ==
    IF t[1] = "-" THEN 0 - DigitRun(t, stoiFirst(t), 0)
    ELSE DigitRun(t, stoiFirst(t), 0)

\* the characters the explored texts are made of
CountChars == {"-", "x"} \cup {Digits[d + 1] : d \in 0..MaxPasses}

CountTexts ==
    UNION {[1..n -> CountChars] : n \in 1..MaxCountLen}

\* try { Config.updateCount(std::stoi(argv[i])); } catch (...) { errorExit }
\* the counts a run can start with.  A count below 0 runs no pass, exactly
\* as 0 does, and stands with it; counts above MaxPasses are not explored.
ParsedCounts ==
    {stoi(t) : t \in {u \in CountTexts : ~stoiThrows(u)}}
        \cap (0..MaxPasses)

ConfigSpace ==
    [overwriteCount : ParsedCounts, recursive : BOOLEAN, keep_files : BOOLEAN,
     follow_symlinks : BOOLEAN, dry_run : BOOLEAN, verify : BOOLEAN,
     force_delete : BOOLEAN, euidRoot : BOOLEAN]

\* the variables of parseArguments once it has returned
ParseIdle ==
    /\ argv = <<>>
    /\ argi = 0
    /\ argj = 0

\* the variables of changePermissions while it is not running
PermIdle ==
    /\ st_mode = 0
    /\ isExecutable = FALSE
    /\ chmodMode = -1

\* the variables of syncFile while it is not running
SyncIdle ==
    /\ openCount = 0
    /\ syncHandle = "null"
    /\ synced = FALSE

\* the variables of overwriteWithRandomData while no pass is running
KernelIdle ==
    /\ fileSize = 0
    /\ bufferSize = 0
    /\ offset = 0
    /\ spass = 0
    /\ lastRandomData = <<>>
    /\ content = <<>>
    /\ writes = <<>>
    /\ queries = 0
    /\ passResult = -1
    /\ hashRet = -1

Init ==
    /\ Config \in ConfigSpace
    /\ linked = InitFileSystem.linked
    /\ mode = InitFileSystem.mode
    /\ data = InitFileSystem.data
    /\ wc = [failedToRetrievePermissions |-> FALSE, writePermission |-> FALSE,
             readPermission |-> FALSE]
    /\ isProgramError = FALSE
    /\ exitStatus = -1
    /\ pc = "main"
    /\ argn = 0
    /\ path = ""
    /\ entryIdx = 0
    /\ filePath = ""
    /\ verificationFailed = FALSE
    /\ attempts = 0
    /\ i = 0
    /\ file = "closed"
    /\ obfuscatedPath = ""
    /\ ret = "none"
    /\ failedAt = 0
    /\ steps = <<>>
    /\ logged = {}
    /\ snap = NoSnapshot
    /\ KernelIdle
    /\ once = NoSnapshot
    /\ ParseIdle /\ PermIdle /\ SyncIdle
    /\ fileArgs = <<>>

----------------------------------------------------------------------------
\* main

\* for (const auto& filePath : fileArgs) processPath(filePath);
main_loop ==
    /\ pc = "main"
    /\ argn < MaxArgs
    /\ \E p \in UserPaths : path' = p
    /\ argn' = argn + 1
    /\ pc' = "processPath"
    /\ UNCHANGED <<cfgv, kernv, once, fsv, wc, isProgramError, exitStatus, entryIdx, engv,
                   ret, logged>>

\* a main that forgets the flag
ExitAlwaysSuccess(err) == 0

\* if (Program.isError()) return EXIT_FAILURE; return EXIT_SUCCESS;
ExitCode(err) == IF err THEN 1 ELSE 0

\* the end of main, once every path (at least one) was processed
main_exit ==
    /\ pc = "main"
    /\ argn >= 1
    /\ exitStatus' = ExitCode(isProgramError)
    /\ pc' = "done"
    /\ UNCHANGED <<cfgv, kernv, once, fsv, wc, isProgramError, walkv, engv, ret, logged>>

----------------------------------------------------------------------------
\* processPath

\* a walker that descends whether or not -r was given
isRecursiveAlways == TRUE

\* if (Config.isRecursive())
isRecursive == Config.recursive

\* a last branch that only logs
InvalidPathIsErrorNever(b) == FALSE

\* else { logMessage(ERROR, ...); Program.updateErrorStatus(); }
InvalidPathIsError(b) == b = "invalid"

\* which branch processPath takes for its argument
PathBranch(p) ==
    IF IsSymlink(p) /\ ~Config.follow_symlinks THEN "skip_symlink"
    ELSE IF IsSymlink(p) /\ Config.follow_symlinks /\ ~Exists(LinkTarget(p))
        THEN "dangling"
    \* fs::path path{target}; declares a new variable in the inner block:
    \* the function goes on with the path it was given
    ELSE IF is_directory(p)
        THEN IF isRecursive THEN "descend" ELSE "dir_no_recursive"
    ELSE IF is_regular_file(p) THEN "shred"
    ELSE "invalid"

processPath ==
    /\ pc = "processPath"
    /\ LET b == PathBranch(path) IN
        /\ pc' = CASE b = "descend" -> "dir_iter"
                   [] b = "shred" -> "shredFile"
                   [] OTHER -> "path_ret"
        /\ entryIdx' = IF b = "descend" THEN 1 ELSE entryIdx
        /\ filePath' = IF b = "shred" THEN path ELSE filePath
        /\ logged' = CASE b \in {"skip_symlink", "dangling", "dir_no_recursive"}
                            -> logged \cup {"WARNING"}
                       [] b = "invalid" -> logged \cup {"ERROR"}
                       [] OTHER -> logged
        /\ isProgramError' = (isProgramError \/ InvalidPathIsError(b))
    /\ UNCHANGED <<cfgv, kernv, once, fsv, wc, exitStatus, argn, path, verificationFailed,
                   attempts, i, file, obfuscatedPath, failedAt, steps, snap, ret>>

\* for (const auto& entry : fs::recursive_directory_iterator(path, ...))
\*     if (fs::is_regular_file(entry)) shredFile(entry.path());
dir_iter ==
    /\ pc = "dir_iter"
    /\ LET es == DirEntries(path) IN
        IF entryIdx > Len(es)
        THEN /\ pc' = "dir_end"
             /\ UNCHANGED <<entryIdx, filePath>>
        ELSE /\ entryIdx' = entryIdx + 1
             /\ IF is_regular_file(es[entryIdx])
                THEN pc' = "shredFile" /\ filePath' = es[entryIdx]
                ELSE pc' = "dir_iter" /\ UNCHANGED filePath
    /\ UNCHANGED <<cfgv, kernv, once, fsv, wc, isProgramError, exitStatus, argn, path,
                   verificationFailed, attempts, i, file, obfuscatedPath,
                   failedAt, steps, snap, ret, logged>>

\* a removal test that does not look into the directory
ShouldRemoveDirUnseen(d) == ~Config.keep_files /\ ~Config.dry_run

\* if (!Config.isKeep_files() && fs::is_empty(path) && !Config.isDry_run())
ShouldRemoveDir(d) ==
    ~Config.keep_files /\ is_empty(d) /\ ~Config.dry_run

\* the end of the descent: remove the directory or say why not
dir_end ==
    /\ pc = "dir_end"
    /\ IF ShouldRemoveDir(path)
       THEN \E removed \in BOOLEAN :
            /\ linked' = IF removed THEN [linked EXCEPT ![path] = "none"]
                         ELSE linked
            /\ logged' = IF removed THEN logged ELSE logged \cup {"ERROR"}
            /\ isProgramError' = (isProgramError \/ ~removed)
       ELSE /\ logged' = logged \cup
                  (IF Config.keep_files THEN {"WARNING"}
                   ELSE IF ~is_empty(path) /\ ~Config.dry_run THEN {"WARNING"}
                   ELSE IF Config.dry_run THEN {"DRY_RUN"} ELSE {})
            /\ UNCHANGED <<linked, isProgramError>>
    /\ pc' = "path_ret"
    /\ UNCHANGED <<cfgv, kernv, once, mode, data, wc, exitStatus, walkv, engv, ret>>

\* processPath returns to main's loop; its locals are gone
path_ret ==
    /\ pc = "path_ret"
    /\ pc' = "main"
    /\ path' = ""
    /\ entryIdx' = 0
    /\ logged' = {}
    /\ UNCHANGED <<cfgv, kernv, once, fsv, wc, isProgramError, exitStatus, argn, engv, ret>>

----------------------------------------------------------------------------
\* shredFile

\* return from shredFile: the result, what was logged, the error flag
Return(r, lvls, err) ==
    /\ ret' = r
    /\ pc' = "shred_ret"
    /\ logged' = logged \cup lvls
    /\ isProgramError' = (isProgramError \/ err)

\* a shredFile without the dry-run return
DryRunIgnored == FALSE

\* if (Config.isDry_run()) { ... return true; }
DryRunReturns == Config.dry_run

\* which way the first lines of shredFile go
EntryBranch(p) ==
    IF DryRunReturns THEN "dry_run"
    ELSE IF IsSymlink(p) /\ Config.follow_symlinks
        \* fs::path filePath{target}; return true;  the target is never used
        THEN IF ~Exists(LinkTarget(p)) THEN "dangling" ELSE "followed"
    ELSE IF is_empty(p) THEN "empty"
    ELSE "gate"

\* entry of shredFile up to the first return or the permission gate
shredFile ==
    /\ pc = "shredFile"
    /\ verificationFailed' = FALSE
    /\ snap' = FileSystem
    /\ LET b == EntryBranch(filePath) IN
        /\ pc' = IF b = "gate" THEN "gate" ELSE "shred_ret"
        /\ ret' = CASE b \in {"dry_run", "followed"} -> "true"
                    [] b \in {"dangling", "empty"} -> "false"
                    [] OTHER -> "none"
        /\ logged' = CASE b = "dry_run" -> {"DRY_RUN"}
                       [] b = "dangling" -> {"WARNING"}
                       [] b = "empty" -> {"ERROR"}
                       [] OTHER -> {}
    /\ UNCHANGED <<cfgv, kernv, once, fsv, wc, isProgramError, exitStatus, walkv, filePath,
                   attempts, i, file, obfuscatedPath, failedAt, steps>>

\* hasWritePermission (POSIX branch): the new value of wc
hasWritePermission(p, statFails) ==
    IF statFails
    THEN [wc EXCEPT !.failedToRetrievePermissions = TRUE]
    ELSE LET f == Resolve(p)
             w0 == IF Config.euidRoot THEN TRUE ELSE mode[f]["w"]
             r0 == IF Config.euidRoot THEN TRUE ELSE mode[f]["r"]
         IN [failedToRetrievePermissions |-> FALSE,
             writePermission |-> (w0 \/ access(f, "w")),
             readPermission |-> (r0 \/ access(f, "r"))]

\* hasWritePermission(filePath);
gate ==
    /\ pc = "gate"
    /\ \E statFails \in BOOLEAN :
        /\ wc' = hasWritePermission(filePath, statFails)
        /\ logged' = IF statFails THEN logged \cup {"ERROR"} ELSE logged
    /\ steps' = Append(steps, "gate")
    /\ pc' = "force"
    /\ UNCHANGED <<cfgv, kernv, once, fsv, isProgramError, exitStatus, walkv, filePath,
                   verificationFailed, attempts, i, file, obfuscatedPath,
                   failedAt, snap, ret>>

\* force that does not look at the permissions
NeedChangeAlways == Config.force_delete

\* if (Config.isForce_delete()) { if (!wc.isWritePerm() || !wc.isReadPerm()) ...
NeedChange == Config.force_delete /\ (~wc.writePermission \/ ~wc.readPermission)

\* a chmod that grants write only
ElevatedModeWriteOnly(m) == [r |-> FALSE, w |-> TRUE]

\* chmod(filePath, S_IRUSR | S_IWUSR | S_IRGRP | S_IWGRP | S_IROTH | S_IWOTH),
\* with the execute bits when the file had one: read and write for everyone
ElevatedMode(m) == ModeRW

\* changePermissions: chmod to rw-rw-rw- / rwxrwxrwx, clear the extended
\* attributes, then probe access again
force ==
    /\ pc = "force"
    /\ IF NeedChange
       THEN \E chmodOk \in BOOLEAN :
            LET f == Resolve(filePath)
                m == [mode EXCEPT ![f] = ElevatedMode(mode[f])]
            IN  /\ chmodOk => CanChmod(f)
                /\ mode' = IF chmodOk THEN m ELSE mode
                /\ wc' = IF chmodOk
                         THEN [wc EXCEPT
                               !.writePermission = @ \/ accessIn(m, f, "w"),
                               !.readPermission = @ \/ accessIn(m, f, "r")]
                         ELSE wc
                /\ steps' = IF chmodOk THEN steps \o <<"elevate", "xattr">>
                            ELSE Append(steps, "elevate")
                /\ logged' = logged \cup
                             (IF chmodOk THEN {"WARNING"} ELSE {"WARNING", "ERROR"})
       ELSE UNCHANGED <<mode, wc, steps, logged>>
    /\ pc' = "check"
    /\ UNCHANGED <<cfgv, kernv, once, linked, data, isProgramError, exitStatus, walkv,
                   filePath, verificationFailed, attempts, i, file,
                   obfuscatedPath, failedAt, snap, ret>>

\* only the retrieval failure is checked
PermissionDeniedRetrievalOnly == wc.failedToRetrievePermissions

\* the three permission checks after the gate
PermissionDenied ==
    wc.failedToRetrievePermissions \/ ~wc.writePermission \/ ~wc.readPermission

\* if (wc.failedWritePerm()) ... if (!wc.isWritePerm()) ... if (!wc.isReadPerm())
\* ... if (fs::file_size(filePath) == 0) ...
check ==
    /\ pc = "check"
    /\ IF PermissionDenied
       THEN /\ Return("false",
                      IF wc.failedToRetrievePermissions THEN {} ELSE {"ERROR"},
                      TRUE)
            /\ UNCHANGED <<fsv, steps>>
       ELSE IF FileSize(Resolve(filePath)) = 0
       THEN IF ~Config.keep_files
            THEN \E removed \in BOOLEAN :
                 /\ IF removed
                    THEN /\ linked' = Unlinked(FileSystem, filePath).linked
                         /\ mode' = Unlinked(FileSystem, filePath).mode
                         /\ data' = Unlinked(FileSystem, filePath).data
                    ELSE UNCHANGED fsv
                 /\ steps' = IF removed THEN Append(steps, "unlink") ELSE steps
                 /\ Return(IF removed THEN "true" ELSE "false",
                           IF removed THEN {} ELSE {"ERROR"}, ~removed)
            ELSE /\ Return("true", {"WARNING"}, FALSE)
                 /\ UNCHANGED <<fsv, steps>>
       ELSE /\ pc' = "open"
            /\ UNCHANGED <<fsv, steps, ret, logged, isProgramError>>
    /\ UNCHANGED <<cfgv, kernv, once, wc, exitStatus, walkv, filePath,
                   verificationFailed, attempts, i, file, obfuscatedPath,
                   failedAt, snap>>

\* a loop that allows one attempt more
KeepTryingOneMore(n) == n <= MaxOpenAttempts

\* while (attempts < 10)
KeepTrying(n) == n < MaxOpenAttempts

\* one turn of: while (attempts < 10) { file.open(...); if (file) break; ... }
\* and, after the last failure, if (!file) { ... return false; }
open ==
    /\ pc = "open"
    /\ \E opened \in BOOLEAN :
        IF opened
        THEN /\ file' = "good"
             /\ steps' = Append(steps, "open")
             /\ pc' = "pass"
             \* attempts is not read again once the loop is left
             /\ attempts' = 0
             /\ UNCHANGED <<ret, logged, isProgramError>>
        ELSE /\ attempts' = attempts + 1
             /\ IF KeepTrying(attempts + 1)
                THEN /\ pc' = "open"
                     /\ logged' = logged \cup {"WARNING"}
                     /\ UNCHANGED <<ret, isProgramError>>
                ELSE Return("false", {"WARNING", "ERROR"}, TRUE)
             /\ UNCHANGED <<file, steps>>
    /\ UNCHANGED <<cfgv, kernv, once, fsv, wc, exitStatus, walkv, filePath,
                   verificationFailed, i, obfuscatedPath, failedAt, snap>>

\* the flag follows the last pass: verificationFailed = (... == 1);
PassFlagLastPass(vf, result) == result = 1

\* if (overwriteWithRandomData(...) == 1) verificationFailed = true;
PassFlag(vf, result) == vf \/ result = 1

\* what overwriteWithRandomData returns: with verify, 1 unless what is read
\* back (by hash or by the byte comparison) equals what was written
OverwriteResult(readBackMatches) ==
    IF Config.verify /\ ~readBackMatches THEN 1 ELSE 0

\* a pass loop that reports a failed verification as a program error
PassSetsErrorOnMismatch(result) == result = 1

\* the pass loop has no Program.updateErrorStatus(): whatever
\* overwriteWithRandomData returned, the flag stays as it is
PassSetsError(result) == FALSE

\* one iteration of the pass loop: overwriteWithRandomData(filePath, file,
\* fileSize, i + 1).  The writes are not checked: once a write or seek
\* fails the stream stays failed and later writes do nothing.
pass ==
    /\ pc = "pass"
    /\ i < Config.overwriteCount
    /\ \E writeFails \in BOOLEAN, mismatch \in BOOLEAN :
        LET f == Resolve(filePath)
            wrote == file = "good" /\ ~writeFails
            failsNow == file = "good" /\ writeFails
            result == OverwriteResult(wrote /\ ~mismatch)
        IN  \* a read-back that differs from what was written is seen only
            \* when the pass verifies
            /\ mismatch => (wrote /\ Config.verify)
            /\ data' = [data EXCEPT ![f] =
                          IF wrote THEN "random"
                          ELSE IF failsNow THEN "partial" ELSE @]
            /\ file' = IF failsNow THEN "fail" ELSE file
            /\ failedAt' = IF failsNow THEN i + 1 ELSE failedAt
            /\ steps' = IF file = "good" THEN Append(steps, "write") ELSE steps
            /\ verificationFailed' = PassFlag(verificationFailed, result)
            \* "Hash mismatch for ... on pass ..."
            /\ logged' = IF result = 1 THEN logged \cup {"WARNING"} ELSE logged
            /\ isProgramError' = (isProgramError \/ PassSetsError(result))
    /\ i' = i + 1
    /\ UNCHANGED <<cfgv, kernv, once, linked, mode, wc, exitStatus, walkv,
                   filePath, attempts, obfuscatedPath, snap, ret, pc>>

\* the deletion test without the verification flag
ShouldUnlinkUnverified == ~Config.keep_files

\* if (!Config.isKeep_files() && !verificationFailed)
ShouldUnlink == ~Config.keep_files /\ ~verificationFailed

\* a shredFile that synchronizes the file before it closes the stream
ClosingStepsSyncFirst == <<"fsync", "close">>

\* file.close(); syncFile(filePath);
ClosingSteps == <<"close", "fsync">>

\* after the loop: file.close(); syncFile(filePath); then delete or keep
close ==
    /\ pc = "pass"
    /\ i >= Config.overwriteCount
    /\ file' = "closed"
    /\ steps' = steps \o ClosingSteps
    /\ IF ShouldUnlink
       THEN /\ pc' = "obfuscate"
            /\ UNCHANGED <<ret, logged, isProgramError>>
       ELSE Return("true", {}, FALSE)
    /\ UNCHANGED <<cfgv, kernv, once, fsv, wc, exitStatus, walkv, filePath,
                   verificationFailed, attempts, i, obfuscatedPath, failedAt, snap>>

\* a revocation that leaves the read bit
RevokedModeReadOnly == [r |-> TRUE, w |-> FALSE]

\* fs::permissions(filePath, fs::perms::none);
RevokedMode == ModeNone

\* a shredFile that gives up when the try block was left by an exception
AfterObfuscateStopOnFailure(ok) == IF ok THEN "unlink" ELSE "shred_ret"

\* catch (...) { std::cerr << ...; }  and on to the removal at line 820
AfterObfuscate(ok) == "unlink"

\* the try block: std::unique_lock lock(fileMutex); fs::permissions(filePath,
\* none); obfuscatedPath = temp / random name; fs::rename(filePath,
\* obfuscatedPath); cleanupMetadata(...).  fs::permissions and fs::rename
\* throw on failure, which ends the block.  lock is a local of the block: its
\* destructor releases fileMutex where the block is left, by its last line or
\* by an exception.
obfuscate ==
    /\ pc = "obfuscate"
    /\ \E permOk \in BOOLEAN, renameOk \in BOOLEAN :
        LET f == Resolve(filePath) IN
        /\ permOk => CanChmod(f)
        /\ renameOk => permOk
        /\ mode' = IF permOk THEN [mode EXCEPT ![f] = RevokedMode] ELSE mode
        /\ obfuscatedPath' = IF permOk THEN "temp" ELSE ""
        /\ linked' = IF renameOk THEN [linked EXCEPT ![filePath] = "temp"]
                     ELSE linked
        /\ steps' = steps \o <<"lock">>
                          \o (IF permOk THEN <<"chmod000">> ELSE <<>>)
                          \o (IF renameOk THEN <<"rename", "scrub">> ELSE <<>>)
                          \o <<"unlock">>
        /\ pc' = AfterObfuscate(permOk /\ renameOk)
    /\ UNCHANGED <<cfgv, kernv, once, data, wc, isProgramError, exitStatus, walkv, filePath,
                   verificationFailed, attempts, i, file, failedAt, snap, ret,
                   logged>>

\* a failed removal that is only logged
UnlinkFailureIgnored(removed) == FALSE

\* else { logMessage(ERROR, "Failed to delete file"); Program.updateErrorStatus();
\*        return false; }
UnlinkFailureIsError(removed) == ~removed

\* if (std::remove(obfuscatedPath.c_str()) == 0 || std::remove(filePath.c_str()) == 0)
unlink ==
    /\ pc = "unlink"
    /\ \E removable \in BOOLEAN :
        LET atTemp == obfuscatedPath # "" /\ linked[filePath] = "temp"
            atPath == linked[filePath] = "path"
            removed == removable /\ (atTemp \/ atPath)
        IN  /\ IF removed
               THEN /\ linked' = Unlinked(FileSystem, filePath).linked
                    /\ mode' = Unlinked(FileSystem, filePath).mode
                    /\ data' = Unlinked(FileSystem, filePath).data
               ELSE UNCHANGED fsv
            /\ steps' = IF removed THEN Append(steps, "unlink") ELSE steps
            /\ Return(IF removed THEN "true" ELSE "false",
                      IF removed THEN {} ELSE {"ERROR"},
                      UnlinkFailureIsError(removed))
    /\ UNCHANGED <<cfgv, kernv, once, wc, exitStatus, walkv, filePath,
                   verificationFailed, attempts, i, file, obfuscatedPath,
                   failedAt, snap>>

\* a directory loop that stops at the first file shredFile failed on
AfterShredStopOnFailure(r) ==
    IF Resolve(path) \in Dirs /\ r # "false" THEN "dir_iter" ELSE "path_ret"

\* where the caller goes on: shredFile(entry.path()); inside the directory
\* loop, shredFile(path); as processPath's last statement.  Neither reads
\* the value returned.
AfterShred(r) == IF Resolve(path) \in Dirs THEN "dir_iter" ELSE "path_ret"

\* back in the caller; shredFile's locals are gone
shred_ret ==
    /\ pc = "shred_ret"
    /\ pc' = AfterShred(ret)
    /\ filePath' = ""
    /\ verificationFailed' = FALSE
    /\ attempts' = 0
    /\ i' = 0
    /\ file' = "closed"
    /\ obfuscatedPath' = ""
    /\ failedAt' = 0
    /\ steps' = <<>>
    /\ snap' = NoSnapshot
    /\ ret' = "none"
    /\ logged' = {}
    /\ UNCHANGED <<cfgv, kernv, once, fsv, wc, isProgramError, exitStatus, walkv>>

----------------------------------------------------------------------------
\* overwriteWithRandomData, write by write, for one opened file: the pass
\* loop of shredFile and, inside a pass, the block loop, the pattern loop
\* and the verification.  A byte is a number in 0..255.

\* f_frsize of the file system of the working directory
FrSize == 2
\* return 4096;  when statvfs fails
DefaultBlockSize == 4096
\* sizes of the files that are overwritten
MaxSize == 3

\* std::vector<std::string> patterns
PatternNames == <<"0x00", "0xFF", "0xAA", "0x55", "0x3D", "0xC2", "0x8E", "0x4E">>
PatternBytes == <<0, 255, 170, 85, 61, 194, 142, 78>>

\* int securePasses(patterns.size());
securePasses == Len(PatternBytes)

\* bytes the random source yields in the explored runs
RandomBytes == {0, 165}

\* the contents of a file before the run
OrigContent(n) == [k \in 1..n |-> 65]

\* std::min(bufferSize, fileSize - offset)
Min(a, b) == IF a < b THEN a ELSE b

\* a write that takes one byte more than what is left of the file
WriteSizeOneMore(off) == Min(bufferSize, fileSize - off + 1)

\* std::uintmax_t writeSize{std::min(bufferSize, fileSize - offset)};
WriteSize(off) == Min(bufferSize, fileSize - off)

\* a block loop that advances byte by byte
NextOffsetByOne(off) == off + 1

\* offset += bufferSize
NextOffset(off) == off + bufferSize

\* n bytes of value b
Fill(b, n) == [k \in 1..n |-> b]

\* the sequence c with bytes put at positions off+1 .. off+Len(bytes); a
\* write that goes past the end makes the sequence longer
Overwrite(c, off, bytes) ==
    [k \in 1..(IF off + Len(bytes) > Len(c) THEN off + Len(bytes) ELSE Len(c)) |->
        IF k > off /\ k <= off + Len(bytes) THEN bytes[k - off] ELSE c[k]]

\* a random write follows every pattern
RandomAfterEveryPattern(k) == TRUE

\* if (pass % 2 == 1)
RandomAfter(k) == k % 2 = 1

\* the bytes are never kept
RecordedNever(lrd, off, bytes) == lrd

\* if (Config.isVerify()) std::copy(randomData.begin(), randomData.end(),
\*                                   lastRandomData.begin() + offset);
Recorded(lrd, off, bytes) ==
    IF Config.verify THEN Overwrite(lrd, off, bytes) ELSE lrd

\* what the kernel reads of the configuration, and two facts of the build:
\* whether OPENSSL_FOUND is defined and whether plain char is signed
KernelConfigSpace ==
    [overwriteCount : ParsedCounts, secure_mode : BOOLEAN, verify : BOOLEAN,
     OPENSSL_FOUND : BOOLEAN, char_signed : BOOLEAN]

\* the variables of the walker and of shredFile that the kernel leaves alone
outerv == <<Config, linked, mode, data, wc, isProgramError, exitStatus, argn,
            path, entryIdx, filePath, attempts, obfuscatedPath, ret, failedAt,
            steps, logged, snap, once, fileArgs, parsev, permv, syncv>>

\* shredFile has opened a non-empty file and is about to enter its pass loop
KernelInit ==
    /\ Config \in KernelConfigSpace
    /\ linked = InitFileSystem.linked
    /\ mode = InitFileSystem.mode
    /\ data = InitFileSystem.data
    /\ wc = [failedToRetrievePermissions |-> FALSE, writePermission |-> TRUE,
             readPermission |-> TRUE]
    /\ isProgramError = FALSE
    /\ exitStatus = -1
    /\ pc = "pass_loop"
    /\ argn = 1
    /\ path = "a"
    /\ entryIdx = 0
    /\ filePath = "a"
    /\ verificationFailed = FALSE
    /\ attempts = 0
    /\ i = 0
    /\ file = "good"
    /\ obfuscatedPath = ""
    /\ ret = "none"
    /\ failedAt = 0
    /\ steps = <<"gate", "open">>
    /\ logged = {}
    /\ snap = InitFileSystem
    /\ once = NoSnapshot
    /\ ParseIdle /\ PermIdle /\ SyncIdle
    /\ fileArgs = <<>>
    /\ fileSize \in 1..MaxSize
    /\ content = OrigContent(fileSize)
    /\ bufferSize = 0
    /\ offset = 0
    /\ spass = 0
    /\ lastRandomData = <<>>
    /\ writes = <<>>
    /\ queries = 0
    /\ passResult = -1
    /\ hashRet = -1

\* file.write(bytes, n) at the current offset.  The stream is not tested:
\* once a write fails it stays failed and later writes reach nothing.
FileWrite(bytes, fill) ==
    \E ok \in BOOLEAN :
        /\ file # "good" => ok
        /\ IF file = "good" /\ ok
           THEN /\ content' = Overwrite(content, offset, bytes)
                /\ writes' = Append(writes, [offset |-> offset,
                                             size |-> Len(bytes), fill |-> fill])
                /\ file' = file
           ELSE /\ file' = "fail"
                /\ UNCHANGED <<content, writes>>

\* for (int i = 0; i < Config.getOverwriteCount(); ++i): a pass begins.
\* const std::uintmax_t bufferSize{getOptimalBlockSize()};
\* std::vector<unsigned char> lastRandomData(fileSize);
pass_begin ==
    /\ pc = "pass_loop"
    /\ i < Config.overwriteCount
    /\ \E statvfsFails \in BOOLEAN :
        bufferSize' = IF statvfsFails THEN DefaultBlockSize ELSE FrSize
    /\ queries' = queries + 1
    /\ lastRandomData' = Fill(0, fileSize)
    /\ offset' = 0
    /\ spass' = 0
    /\ writes' = <<>>
    /\ passResult' = -1
    /\ hashRet' = -1
    /\ pc' = "block"
    /\ UNCHANGED <<outerv, verificationFailed, i, file, fileSize, content>>

\* for (offset = 0; offset < fileSize; offset += bufferSize): which way the
\* next turn goes
block_begin ==
    /\ pc = "block"
    /\ pc' = IF offset >= fileSize THEN "verify"
             ELSE IF Config.secure_mode THEN "pattern" ELSE "random_block"
    /\ spass' = 0
    /\ UNCHANGED <<outerv, verificationFailed, i, file, fileSize, content,
                   bufferSize, offset, lastRandomData, writes, queries,
                   passResult, hashRet>>

\* if (!Config.isSecure_mode()): one random write for the block
random_block ==
    /\ pc = "random_block"
    /\ \E randomData \in [1..WriteSize(offset) -> RandomBytes] :
        /\ FileWrite(randomData, "random")
        /\ lastRandomData' = Recorded(lastRandomData, offset, randomData)
    /\ offset' = NextOffset(offset)
    /\ pc' = "block"
    /\ UNCHANGED <<outerv, verificationFailed, i, fileSize, bufferSize, spass,
                   queries, passResult, hashRet>>

\* for (int pass = 0; pass < securePasses; ++pass): the pattern write
pattern_write ==
    /\ pc = "pattern"
    /\ IF spass < securePasses
       THEN /\ FileWrite(Fill(PatternBytes[spass + 1], WriteSize(offset)),
                         PatternNames[spass + 1])
            /\ IF RandomAfter(spass)
               THEN pc' = "random_fill" /\ UNCHANGED spass
               ELSE pc' = "pattern" /\ spass' = spass + 1
       ELSE /\ pc' = "dod_zero"
            /\ UNCHANGED <<content, writes, file, spass>>
    /\ UNCHANGED <<outerv, verificationFailed, i, fileSize, bufferSize, offset,
                   lastRandomData, queries, passResult, hashRet>>

\* if (pass % 2 == 1) { randomData = rng.generate(writeSize); ... write }
random_fill ==
    /\ pc = "random_fill"
    /\ \E randomData \in [1..WriteSize(offset) -> RandomBytes] :
        FileWrite(randomData, "random")
    /\ spass' = spass + 1
    /\ pc' = "pattern"
    /\ UNCHANGED <<outerv, verificationFailed, i, fileSize, bufferSize, offset,
                   lastRandomData, queries, passResult, hashRet>>

\* Pass 1: Overwrite with 0x00
dod_zero ==
    /\ pc = "dod_zero"
    /\ FileWrite(Fill(0, WriteSize(offset)), "0x00")
    /\ pc' = "dod_one"
    /\ UNCHANGED <<outerv, verificationFailed, i, fileSize, bufferSize, offset,
                   spass, lastRandomData, queries, passResult, hashRet>>

\* Pass 2: Overwrite with 0xFF
dod_one ==
    /\ pc = "dod_one"
    /\ FileWrite(Fill(255, WriteSize(offset)), "0xFF")
    /\ pc' = "dod_random"
    /\ UNCHANGED <<outerv, verificationFailed, i, fileSize, bufferSize, offset,
                   spass, lastRandomData, queries, passResult, hashRet>>

\* Pass 3: Overwrite with random data, kept for the verification
dod_random ==
    /\ pc = "dod_random"
    /\ \E randomData \in [1..WriteSize(offset) -> RandomBytes] :
        /\ lastRandomData' = Recorded(lastRandomData, offset, randomData)
        /\ FileWrite(randomData, "random")
    /\ offset' = NextOffset(offset)
    /\ pc' = "block"
    /\ UNCHANGED <<outerv, verificationFailed, i, fileSize, bufferSize, spass,
                   queries, passResult, hashRet>>

\* SHA-256 of the file read back against SHA-256 of lastRandomData
\* (verifyWithHash); equal digests are taken to mean equal bytes
HashEqual == content = lastRandomData

\* a byte of verifyBuffer (std::vector<char>) as std::equal compares it with
\* an unsigned char
CharOf(b) == IF Config.char_signed /\ b >= 128 THEN b - 256 ELSE b

\* what file.read leaves in verifyBuffer for position k of the file: the
\* byte on disk, or the zero the buffer was created with when the stream
\* has failed and reads nothing
ReadBack(k) == IF file = "good" THEN content[k] ELSE 0

\* the fallback: block by block, std::equal(verifyBuffer, lastRandomData)
FallbackEqual ==
    \A k \in 1..fileSize : CharOf(ReadBack(k)) = lastRandomData[k]

\* verifyWithHash: 1 when the file cannot be opened for hashing, 2 when the
\* digests differ, 0 when they are equal
verifyWithHash(hashOpens) ==
    IF ~hashOpens THEN 1 ELSE IF HashEqual THEN 0 ELSE 2

\* int ret{1}; and, where OPENSSL_FOUND is defined, ret = verifyWithHash(...)
HashReturn(hashOpens) ==
    IF Config.OPENSSL_FOUND THEN verifyWithHash(hashOpens) ELSE 1

\* a verification that compares the bytes after every failed hash
UseFallbackUnlessVerified(r) == r # 0

\* if (ret == 1) { ... the block-by-block comparison ... }
UseFallback(r) == r = 1

\* the value overwriteWithRandomData returns
VerifyResult(hashOpens) ==
    IF ~Config.verify THEN 0
    ELSE LET r == HashReturn(hashOpens)
             \* if (ret == 2) verificationFailedHere = true;
             afterHash == r = 2
             \* if (ret == 0) return 0;
         IN  IF r = 0 THEN 0
             ELSE IF UseFallback(r) THEN (IF FallbackEqual THEN 0 ELSE 1)
             ELSE IF afterHash THEN 1 ELSE 0

\* the end of overwriteWithRandomData (950-978) and, back in shredFile,
\* if (... == 1) verificationFailed = true;
verify_pass ==
    /\ pc = "verify"
    /\ \E hashOpens \in BOOLEAN :
        /\ ~(Config.verify /\ Config.OPENSSL_FOUND) => hashOpens
        /\ passResult' = VerifyResult(hashOpens)
        /\ hashRet' = IF Config.verify THEN HashReturn(hashOpens) ELSE -1
        /\ verificationFailed' =
                PassFlag(verificationFailed, VerifyResult(hashOpens))
    /\ i' = i + 1
    /\ pc' = "pass_loop"
    /\ UNCHANGED <<outerv, file, fileSize, content, bufferSize, offset, spass,
                   lastRandomData, writes, queries>>

\* the pass loop is left: file.close();
passes_done ==
    /\ pc = "pass_loop"
    /\ i >= Config.overwriteCount
    /\ file' = "closed"
    /\ pc' = "passes_done"
    /\ UNCHANGED <<outerv, verificationFailed, i, fileSize, content,
                   bufferSize, offset, spass, lastRandomData, writes, queries,
                   passResult, hashRet>>

KernelNext ==
    \/ pass_begin
    \/ block_begin
    \/ random_block
    \/ pattern_write
    \/ random_fill
    \/ dod_zero
    \/ dod_one
    \/ dod_random
    \/ verify_pass
    \/ passes_done

KernelSpec == KernelInit /\ [][KernelNext]_vars

----------------------------------------------------------------------------
\* The same file named several times on one command line with -k, as in
\* shred -k a a: main's loop hands the path to processPath again and again.

\* how often the path is named
MaxRuns == 2

\* non-empty regular files
TwiceTargets == {"a", "ro", "g"}

\* what a shredFile call leaves behind when it returns
Outcome ==
    [fs |-> FileSystem, ret |-> ret, verificationFailed |-> verificationFailed,
     isProgramError |-> isProgramError]

\* the call met no failure of its environment: stat, chmod by the owner,
\* open, the writes and the read-back all did what they normally do
CleanRun ==
    /\ ~wc.failedToRetrievePermissions
    /\ (Did("elevate") /\ ~Did("xattr")) => ~CanChmod(Resolve(filePath))
    /\ attempts < MaxOpenAttempts
    /\ failedAt = 0
    /\ ~verificationFailed

TwiceInit ==
    /\ Config \in {c \in ConfigSpace : c.keep_files}
    /\ path \in TwiceTargets
    /\ linked = InitFileSystem.linked
    /\ mode = InitFileSystem.mode
    /\ data = InitFileSystem.data
    /\ wc = [failedToRetrievePermissions |-> FALSE, writePermission |-> FALSE,
             readPermission |-> FALSE]
    /\ isProgramError = FALSE
    /\ exitStatus = -1
    /\ pc = "main"
    /\ argn = 0
    /\ entryIdx = 0
    /\ filePath = ""
    /\ verificationFailed = FALSE
    /\ attempts = 0
    /\ i = 0
    /\ file = "closed"
    /\ obfuscatedPath = ""
    /\ ret = "none"
    /\ failedAt = 0
    /\ steps = <<>>
    /\ logged = {}
    /\ snap = NoSnapshot
    /\ KernelIdle
    /\ once = NoSnapshot
    /\ ParseIdle /\ PermIdle /\ SyncIdle
    /\ fileArgs = <<>>

\* for (const auto& filePath : fileArgs) processPath(filePath);  with the
\* same path once more
twice_call ==
    /\ pc = "main"
    /\ argn < MaxRuns
    /\ argn' = argn + 1
    /\ pc' = "processPath"
    /\ UNCHANGED <<cfgv, kernv, once, fsv, wc, isProgramError, exitStatus,
                   path, entryIdx, engv, ret, logged>>

\* shredFile(path) has returned to processPath, which returns to main; what
\* the call left behind is kept for the comparison with the next one
twice_ret ==
    /\ pc = "shred_ret"
    /\ once' = [outcome |-> Outcome, clean |-> CleanRun]
    /\ pc' = "main"
    /\ filePath' = ""
    /\ verificationFailed' = FALSE
    /\ attempts' = 0
    /\ i' = 0
    /\ file' = "closed"
    /\ obfuscatedPath' = ""
    /\ failedAt' = 0
    /\ steps' = <<>>
    /\ snap' = NoSnapshot
    /\ ret' = "none"
    /\ logged' = {}
    /\ UNCHANGED <<cfgv, kernv, fsv, wc, isProgramError, exitStatus, walkv>>

TwiceNext ==
    \/ twice_call
    \/ processPath
    \/ shredFile
    \/ gate
    \/ force
    \/ check
    \/ open
    \/ pass
    \/ close
    \/ twice_ret

TwiceSpec == TwiceInit /\ [][TwiceNext]_vars

----------------------------------------------------------------------------
\* Whole walks over a command line fixed in advance: main's loop takes the
\* paths of fileArgs one after the other.

WalkPaths == {"a", "d", "n", "x"}

WalkConfigSpace ==
    {c \in ConfigSpace :
        /\ c.overwriteCount = 1
        /\ ~c.dry_run /\ ~c.follow_symlinks /\ ~c.euidRoot /\ ~c.verify
        /\ ~c.force_delete}

WalkInit ==
    /\ Config \in WalkConfigSpace
    /\ fileArgs \in UNION {[1..n -> WalkPaths] : n \in 1..MaxWalkArgs}
    /\ linked = InitFileSystem.linked
    /\ mode = InitFileSystem.mode
    /\ data = InitFileSystem.data
    /\ wc = [failedToRetrievePermissions |-> FALSE, writePermission |-> FALSE,
             readPermission |-> FALSE]
    /\ isProgramError = FALSE
    /\ exitStatus = -1
    /\ pc = "main"
    /\ argn = 0
    /\ path = ""
    /\ entryIdx = 0
    /\ filePath = ""
    /\ verificationFailed = FALSE
    /\ attempts = 0
    /\ i = 0
    /\ file = "closed"
    /\ obfuscatedPath = ""
    /\ ret = "none"
    /\ failedAt = 0
    /\ steps = <<>>
    /\ logged = {}
    /\ snap = NoSnapshot
    /\ KernelIdle
    /\ once = NoSnapshot
    /\ ParseIdle /\ PermIdle /\ SyncIdle

\* for (const auto& filePath : fileArgs) processPath(filePath);
walk_loop ==
    /\ pc = "main"
    /\ argn < Len(fileArgs)
    /\ path' = fileArgs[argn + 1]
    /\ argn' = argn + 1
    /\ pc' = "processPath"
    /\ UNCHANGED <<cfgv, kernv, once, fsv, wc, isProgramError, exitStatus,
                   entryIdx, engv, ret, logged>>

\* the range-for is over: main returns
walk_exit ==
    /\ pc = "main"
    /\ argn = Len(fileArgs)
    /\ exitStatus' = ExitCode(isProgramError)
    /\ pc' = "done"
    /\ UNCHANGED <<cfgv, kernv, once, fsv, wc, isProgramError, walkv, engv,
                   ret, logged>>

WalkNext ==
    \/ walk_loop
    \/ walk_exit
    \/ processPath
    \/ dir_iter
    \/ dir_end
    \/ path_ret
    \/ shredFile
    \/ gate
    \/ force
    \/ check
    \/ open
    \/ pass
    \/ close
    \/ obfuscate
    \/ unlink
    \/ shred_ret

\* the single thread is always scheduled: a walk that can take a step does
WalkSpec == WalkInit /\ [][WalkNext]_vars /\ WF_vars(WalkNext)

----------------------------------------------------------------------------
\* The state between two calls: no path in hand, no shredFile running.
Quiescent ==
    /\ linked = InitFileSystem.linked
    /\ mode = InitFileSystem.mode
    /\ data = InitFileSystem.data
    /\ wc = [failedToRetrievePermissions |-> FALSE, writePermission |-> FALSE,
             readPermission |-> FALSE]
    /\ isProgramError = FALSE
    /\ exitStatus = -1
    /\ argn = 0
    /\ path = ""
    /\ entryIdx = 0
    /\ verificationFailed = FALSE
    /\ attempts = 0
    /\ i = 0
    /\ file = "closed"
    /\ obfuscatedPath = ""
    /\ ret = "none"
    /\ failedAt = 0
    /\ steps = <<>>
    /\ logged = {}
    /\ snap = NoSnapshot
    /\ KernelIdle
    /\ once = NoSnapshot

----------------------------------------------------------------------------
\* changePermissions (POSIX branch), statement by statement, on a file of
\* any mode.  A mode is the number made of the nine permission bits.

S_IXUSR == 64
S_IXGRP == 8
S_IXOTH == 1
\* S_IRUSR | S_IWUSR | S_IRGRP | S_IWGRP | S_IROTH | S_IWOTH
ModeRwRwRw == 438
\* S_IRWXU | S_IRWXG | S_IRWXO
ModeRwxRwxRwx == 511

AllModes == 0..ModeRwxRwxRwx

\* fileStat.st_mode & bit
HasBit(m, bit) == (m \div bit) % 2 = 1

\* the test with the third execute bit
ExecutableTestAllBits(m) ==
    HasBit(m, S_IXUSR) \/ HasBit(m, S_IXGRP) \/ HasBit(m, S_IXOTH)

\* (fileStat.st_mode & S_IXUSR) || (fileStat.st_mode & S_IXGRP)
ExecutableTest(m) == HasBit(m, S_IXUSR) \/ HasBit(m, S_IXGRP)

\* changePermissions(filePath) is entered: shredFile found a permission
\* missing and --force was given
PermInit ==
    /\ Config \in {c \in ConfigSpace :
                      /\ c.force_delete /\ c.overwriteCount = 1
                      /\ ~c.recursive /\ ~c.follow_symlinks /\ ~c.dry_run
                      /\ ~c.euidRoot}
    /\ fileArgs = <<"a">>
    /\ filePath = "a"
    /\ Quiescent
    /\ ParseIdle /\ SyncIdle
    /\ st_mode \in AllModes
    /\ isExecutable = FALSE
    /\ chmodMode = -1
    /\ pc = "cp_stat"

\* if (stat(filePath.c_str(), &fileStat) == 0) isExecutable = ...; else WARNING
cp_stat ==
    /\ pc = "cp_stat"
    /\ \E statOk \in BOOLEAN :
        /\ isExecutable' = (statOk /\ ExecutableTest(st_mode))
        /\ logged' = IF statOk THEN logged ELSE logged \cup {"WARNING"}
    /\ pc' = "cp_chmod"
    /\ UNCHANGED <<Config, fileArgs, parsev, syncv, st_mode, chmodMode, kernv,
                   once, fsv, wc, isProgramError, exitStatus, walkv, engv, ret>>

\* ret = chmod(filePath.c_str(), ...); if (ret == 0) INFO else ERROR, return false
cp_chmod ==
    /\ pc = "cp_chmod"
    /\ chmodMode' = IF isExecutable THEN ModeRwxRwxRwx ELSE ModeRwRwRw
    /\ \E chmodOk \in BOOLEAN :
        /\ st_mode' = IF chmodOk THEN chmodMode' ELSE st_mode
        /\ logged' = IF chmodOk THEN logged ELSE logged \cup {"ERROR"}
        /\ ret' = IF chmodOk THEN ret ELSE "false"
        /\ pc' = IF chmodOk THEN "cp_xattr" ELSE "cp_ret"
    /\ UNCHANGED <<Config, fileArgs, parsev, syncv, isExecutable, kernv, once,
                   fsv, wc, isProgramError, exitStatus, walkv, engv>>

\* system("xattr -c ...") or system("attr -r ...") or a WARNING
cp_xattr ==
    /\ pc = "cp_xattr"
    /\ \E cleared \in BOOLEAN :
        logged' = IF cleared THEN logged ELSE logged \cup {"WARNING"}
    /\ pc' = "cp_access"
    /\ UNCHANGED <<Config, fileArgs, parsev, syncv, permv, kernv, once, fsv, wc,
                   isProgramError, exitStatus, walkv, engv, ret>>

\* the two access() probes; true is returned when both succeed
cp_access ==
    /\ pc = "cp_access"
    /\ \E w \in BOOLEAN, r \in BOOLEAN :
        /\ wc' = [wc EXCEPT !.writePermission = @ \/ w,
                            !.readPermission = @ \/ r]
        /\ ret' = IF w /\ r THEN "true" ELSE "false"
    /\ pc' = "cp_ret"
    /\ UNCHANGED <<Config, fileArgs, parsev, syncv, permv, kernv, once, fsv,
                   isProgramError, exitStatus, walkv, engv, logged>>

PermNext ==
    \/ cp_stat
    \/ cp_chmod
    \/ cp_xattr
    \/ cp_access

PermSpec == PermInit /\ [][PermNext]_vars

----------------------------------------------------------------------------
\* syncFile (POSIX branch), statement by statement: shredFile has closed the
\* stream of a file it overwrote and calls syncFile(filePath).

\* for (int openCount = 0; openCount < 3; ++openCount)
SyncTurns == 3

\* if (openCount == 3)
SyncWarnAt == 3

SyncInit ==
    /\ Config \in {c \in ConfigSpace :
                      /\ c.overwriteCount = 1
                      /\ ~c.recursive /\ ~c.follow_symlinks /\ ~c.dry_run
                      /\ ~c.euidRoot /\ ~c.force_delete}
    /\ filePath \in {f \in Files : FileSize(f) > 0 /\ InitMode(f) = ModeRW}
    /\ fileArgs = <<filePath>>
    /\ Quiescent
    /\ ParseIdle /\ PermIdle /\ SyncIdle
    /\ pc = "sf_fopen"

\* FILE* file{fopen(filePath.c_str(), "r")};
sf_fopen ==
    /\ pc = "sf_fopen"
    /\ \E opened \in BOOLEAN :
        syncHandle' = IF opened THEN "open" ELSE "null"
    /\ openCount' = 0
    /\ pc' = "sf_loop"
    /\ UNCHANGED <<Config, fileArgs, parsev, permv, kernv, once, fsv, wc,
                   isProgramError, exitStatus, walkv, engv, ret, logged, synced>>

\* the loop test and if (file) { fsync(fileno(file)); fclose(file); break; }
sf_loop ==
    /\ pc = "sf_loop"
    /\ IF openCount < SyncTurns
       THEN IF syncHandle = "open"
            THEN /\ synced' = TRUE
                 /\ syncHandle' = "closed"
                 /\ pc' = "sf_ret"
            ELSE /\ pc' = "sf_retry"
                 /\ UNCHANGED <<synced, syncHandle>>
       ELSE /\ pc' = "sf_ret"
            /\ UNCHANGED <<synced, syncHandle>>
    /\ UNCHANGED <<Config, fileArgs, parsev, permv, kernv, once, fsv, wc,
                   isProgramError, exitStatus, walkv, engv, ret, logged,
                   openCount>>

\* file = fopen(filePath.c_str(), "r");
\* if (openCount == 3) { logMessage(WARNING, ...); break; }   and ++openCount
sf_retry ==
    /\ pc = "sf_retry"
    /\ \E opened \in BOOLEAN :
        syncHandle' = IF opened THEN "open" ELSE "null"
    /\ IF openCount = SyncWarnAt
       THEN /\ logged' = logged \cup {"WARNING"}
            /\ pc' = "sf_ret"
            /\ UNCHANGED openCount
       ELSE /\ openCount' = openCount + 1
            /\ pc' = "sf_loop"
            /\ UNCHANGED logged
    /\ UNCHANGED <<Config, fileArgs, parsev, permv, kernv, once, fsv, wc,
                   isProgramError, exitStatus, walkv, engv, ret, synced>>

SyncNext ==
    \/ sf_fopen
    \/ sf_loop
    \/ sf_retry

SyncSpec == SyncInit /\ [][SyncNext]_vars

----------------------------------------------------------------------------
\* parseArguments, token by token and, inside a token of short flags,
\* character by character.  A token is a sequence of characters; argv[k + 1]
\* here is argv[k] of the program, argv[1] being the program's name.

\* int overwriteCount{3};
DefaultCount == 3

ProgramName == <<"s">>

\* the tokens the explored command lines are made of: -n, -n2, -k, 1, a
ParseTokens == {<<"-", "n">>, <<"-", "n", "2">>, <<"-", "k">>, <<"1">>, <<"a">>}

CommandLines ==
    UNION {{<<ProgramName>> \o t : t \in [1..n -> ParseTokens]} :
              n \in 1..(MaxArgc - 1)}

argc == Len(argv)

\* struct config as it is constructed
DefaultConfig ==
    [overwriteCount |-> DefaultCount, recursive |-> FALSE,
     keep_files |-> FALSE, follow_symlinks |-> FALSE, dry_run |-> FALSE,
     verify |-> TRUE, force_delete |-> FALSE, euidRoot |-> FALSE]

ParseInit ==
    /\ Config = DefaultConfig
    /\ argv \in CommandLines
    /\ argi = 1
    /\ argj = 0
    /\ fileArgs = <<>>
    /\ filePath = ""
    /\ Quiescent
    /\ PermIdle /\ SyncIdle
    /\ pc = "pa_arg"

\* errorExit(1, ...): the message and exit(1)
errorExit ==
    /\ exitStatus' = 1
    /\ pc' = "pa_exit"

\* end of the run of digits that starts at position start of arg (positions
\* counted from 0): while (end < arg.size() && std::isdigit(arg[end])) ++end;
RECURSIVE DigitsEnd(_, _)
DigitsEnd(arg, end) ==
    IF end < Len(arg) /\ isdigit(arg[end + 1]) THEN DigitsEnd(arg, end + 1)
    ELSE end

\* arg.substr(start, end - start)
substr(arg, start, n) == [k \in 1..n |-> arg[start + k]]

\* the flags whose handler prints (h, H, V, C) or sets a field the model
\* does not keep (v: verbose, s: secure_mode), and returns
QuietFlags == {"h", "H", "V", "C", "v", "s"}

\* the flags that set one boolean of Config to true
FlagField(c) ==
    CASE c = "r" -> "recursive"
      [] c = "k" -> "keep_files"
      [] c = "e" -> "follow_symlinks"
      [] c = "d" -> "dry_run"
      [] c = "f" -> "force_delete"
      [] OTHER -> ""

\* one turn of for (i = 1; i < argc; ++i) for a token that is a path or
\* begins a group of short flags, and the test after the loop
pa_arg ==
    /\ pc = "pa_arg"
    /\ IF argi >= argc
       THEN /\ IF fileArgs = <<>>
               THEN errorExit
               ELSE pc' = "pa_ret" /\ UNCHANGED exitStatus
            /\ UNCHANGED <<argi, argj, fileArgs>>
       ELSE LET arg == argv[argi + 1] IN
            IF arg[1] = "-"
            THEN /\ argj' = 1
                 /\ pc' = "pa_flag"
                 /\ UNCHANGED <<argi, fileArgs, exitStatus>>
            ELSE /\ fileArgs' = Append(fileArgs, arg)
                 /\ argi' = argi + 1
                 /\ UNCHANGED <<argj, pc, exitStatus>>
    /\ UNCHANGED <<Config, argv, permv, syncv, kernv, once, fsv, wc,
                   isProgramError, argn, path, entryIdx, engv, ret, logged>>

\* one turn of for (size_t j = 1; j < arg.size(); ++j): the handler of the
\* flag arg[j], then ++j
pa_flag ==
    /\ pc = "pa_flag"
    /\ LET arg == argv[argi + 1] IN
       IF argj >= Len(arg)
       THEN /\ argi' = argi + 1
            /\ argj' = 0
            /\ pc' = "pa_arg"
            /\ UNCHANGED <<Config, exitStatus>>
       ELSE LET flag == arg[argj + 1] IN
            IF flag = "n"
            THEN LET start == argj + 1
                     end == DigitsEnd(arg, start)
                 IN  IF start < end
                     THEN \* Config.updateCount(std::stoi(arg.substr(...)));
                          \* j = end - 1;
                          /\ Config' = [Config EXCEPT !.overwriteCount =
                                           stoi(substr(arg, start, end - start))]
                          /\ argj' = end
                          /\ UNCHANGED <<argi, pc, exitStatus>>
                     ELSE IF argj + 1 < argc
                     THEN \* Config.updateCount(std::stoi(argv[++j]));
                          IF stoiThrows(argv[argj + 2])
                          THEN /\ errorExit
                               /\ UNCHANGED <<Config, argi, argj>>
                          ELSE /\ Config' = [Config EXCEPT !.overwriteCount =
                                                stoi(argv[argj + 2])]
                               /\ argj' = argj + 2
                               /\ UNCHANGED <<argi, pc, exitStatus>>
                     ELSE /\ errorExit
                          /\ UNCHANGED <<Config, argi, argj>>
            ELSE IF FlagField(flag) # ""
            THEN /\ Config' = [Config EXCEPT ![FlagField(flag)] = TRUE]
                 /\ argj' = argj + 1
                 /\ UNCHANGED <<argi, pc, exitStatus>>
            ELSE IF flag = "c"
            THEN /\ Config' = [Config EXCEPT !.verify = FALSE]
                 /\ argj' = argj + 1
                 /\ UNCHANGED <<argi, pc, exitStatus>>
            ELSE IF flag \in QuietFlags
            THEN /\ argj' = argj + 1
                 /\ UNCHANGED <<Config, argi, pc, exitStatus>>
            ELSE \* errorExit(1, "Invalid flag", ...)
                 /\ errorExit
                 /\ UNCHANGED <<Config, argi, argj>>
    /\ UNCHANGED <<argv, fileArgs, permv, syncv, kernv, once, fsv, wc,
                   isProgramError, argn, path, entryIdx, engv, ret, logged>>

ParseNext ==
    \/ pa_arg
    \/ pa_flag

ParseSpec == ParseInit /\ [][ParseNext]_vars

----------------------------------------------------------------------------
Next ==
    \/ main_loop
    \/ main_exit
    \/ processPath
    \/ dir_iter
    \/ dir_end
    \/ path_ret
    \/ shredFile
    \/ gate
    \/ force
    \/ check
    \/ open
    \/ pass
    \/ close
    \/ obfuscate
    \/ unlink
    \/ shred_ret

Spec == Init /\ [][Next]_vars

----------------------------------------------------------------------------
\* Properties.

\* steps of shredFile that change a file or its directory entry
MutatingSteps ==
    {"elevate", "xattr", "open", "write", "chmod000", "rename", "scrub", "unlink"}

\* shredFile has just returned; its locals and the record of its steps are
\* still there
AtReturn == pc = "shred_ret"

\* the file system is as it was when this shredFile call began
Untouched == FileSystem = snap

\* C1: a non-empty file (or the link that names it) is unlinked only by the
\* unlink step of the call that works on it, after every configured pass
\* has completed, with verificationFailed false and keep_files false.
NoPrematureUnlink ==
    [][\A p \in Files \cup Links :
        (linked[p] # "none" /\ linked'[p] = "none" /\ FileSize(Resolve(p)) > 0)
            => /\ pc = "unlink"
               /\ p = filePath
               /\ i = Config.overwriteCount
               /\ ~verificationFailed
               /\ ~Config.keep_files]_vars

\* a non-empty file went through at least one pass and was unlinked
NoPrematureUnlinkWitness ==
    /\ AtReturn
    /\ filePath = "a"
    /\ Config.overwriteCount >= 1
    /\ Did("write")
    /\ Did("unlink")
    /\ linked["a"] = "none"

\* C2: in a dry run nothing is created, modified, renamed or deleted by the
\* walker or the engine: the file system stays what it was before the run
\* and the engine takes no step on any file.
DryRunPurity ==
    Config.dry_run =>
        /\ FileSystem = InitFileSystem
        /\ \A s \in MutatingSteps : ~Did(s)

\* a dry run went through the files of a directory
DryRunPurityWitness ==
    /\ Config.dry_run
    /\ ~Config.keep_files
    /\ Config.recursive
    /\ AtReturn
    /\ path = "d"
    /\ filePath = "d/l"
    /\ ret = "true"
    /\ "DRY_RUN" \in logged

\* C3: without follow_symlinks no call opens the target of a symbolic link
\* for writing, whether the link was named on the command line or met in a
\* recursive descent.
SymlinkDefaultIsolation ==
    ~Config.follow_symlinks => ~(filePath \in Links /\ Did("open"))

\* C4: with follow_symlinks, a command-line path that is a symbolic link to
\* an existing regular file is processed through its target: the call goes
\* on to the permission gate, and when it returns success with at least one
\* pass configured the target was overwritten.
FollowedSymlinkIsShredded ==
    ( /\ AtReturn
      /\ Config.follow_symlinks
      /\ ~Config.dry_run
      /\ filePath = path
      /\ filePath \in Links
      /\ is_regular_file(filePath) )
    => /\ Did("gate")
       /\ (ret = "true" /\ Config.overwriteCount >= 1) => Did("write")

\* C5: a regular file of size zero (no dry run) is never opened or
\* overwritten; without keep_files it is unlinked and the call succeeds,
\* with keep_files it stays in place with a warning and the call succeeds.
EmptyFileUnlinkedOrKept ==
    ( /\ AtReturn
      /\ ~Config.dry_run
      /\ filePath \in Files
      /\ FileSize(filePath) = 0 )
    => /\ ~Did("open")
       /\ ~Did("write")
       /\ ret = "true"
       /\ Config.keep_files => (linked[filePath] = "path" /\ "WARNING" \in logged)
       /\ ~Config.keep_files => linked[filePath] = "none"

\* C6: verificationFailed is sticky: once a pass has set it, it stays set
\* for the rest of the call, the remaining passes still run one by one, no
\* directory entry is removed, and the call returns with every pass done
\* and the file where it was.
VerificationFailedSticky ==
    /\ [][(verificationFailed /\ pc = "pass")
            => /\ verificationFailed'
               /\ linked' = linked
               /\ (i < Config.overwriteCount => (pc' = "pass" /\ i' = i + 1))
               /\ (i >= Config.overwriteCount => (pc' = "shred_ret" /\ ret' = "true"))]_vars
    /\ []((AtReturn /\ verificationFailed)
            => /\ i = Config.overwriteCount
               /\ ~Did("unlink")
               /\ linked = snap.linked)

\* both passes ran on a file that was to be deleted, one of them failed
\* its verification
VerificationFailedStickyWitness ==
    /\ AtReturn
    /\ verificationFailed
    /\ ~Config.keep_files
    /\ Config.overwriteCount = 2
    /\ i = 2
    /\ failedAt = 0
    /\ linked[filePath] = "path"

\* C7: when a seek or write fails in a pass, whatever verify is, the call
\* reports an ERROR, runs no pass after the failing one, ends with
\* verificationFailed true and does not unlink the file.
WriteFailureStopsPasses ==
    (AtReturn /\ failedAt > 0)
    => /\ "ERROR" \in logged
       /\ i = failedAt
       /\ verificationFailed
       /\ ~Did("unlink")

\* C8: the fatal-error flag is only ever set, and at the normal end of main
\* the exit status is non-zero exactly when the flag is set.
FatalFlagDecidesExit ==
    /\ [][isProgramError => isProgramError']_vars
    /\ [](pc = "done" => ((exitStatus # 0) <=> isProgramError))

\* a run in which the flag was set ended with status 1
FatalFlagDecidesExitWitness ==
    /\ pc = "done"
    /\ isProgramError
    /\ exitStatus = 1

\* C9: when the gate finds read or write permission missing and force is
\* off, the call fails with the fatal flag set, having done nothing but the
\* gate: no chmod, no open, no write, no rename, no unlink.
DeniedWithoutForce ==
    ( /\ AtReturn
      /\ Did("gate")
      /\ ~Config.force_delete
      /\ ~wc.failedToRetrievePermissions
      /\ (~wc.writePermission \/ ~wc.readPermission) )
    => /\ ret = "false"
       /\ isProgramError
       /\ steps = <<"gate">>
       /\ Untouched

\* the read-only file was refused
DeniedWithoutForceWitness ==
    /\ AtReturn
    /\ filePath = "ro"
    /\ Did("gate")
    /\ ~Config.force_delete
    /\ ~wc.failedToRetrievePermissions
    /\ ~wc.writePermission
    /\ wc.readPermission
    /\ ret = "false"

\* C10: when the retrieval of the permissions fails, whatever force is, the
\* call fails with the fatal flag set, without attempting elevation and
\* without any other change to the file.
RetrievalFailureSkipsFile ==
    (AtReturn /\ Did("gate") /\ wc.failedToRetrievePermissions)
    => /\ ret = "false"
       /\ isProgramError
       /\ ~Did("elevate")
       /\ Untouched

\* C11: with force, elevation is attempted exactly when the permission flags
\* left by the gate have read or write missing; a call that attempted
\* elevation goes on to open and overwrite only with both flags set, and
\* otherwise fails with the fatal flag set, the file neither opened,
\* overwritten nor unlinked.
ElevationExactlyWhenDenied ==
    /\ [][pc = "force"
            => ((steps' # steps) <=>
                (Config.force_delete /\
                    (~wc.writePermission \/ ~wc.readPermission)))]_vars
    /\ []((AtReturn /\ Did("elevate"))
            => /\ Config.force_delete
               /\ (Did("open") \/ Did("write"))
                    => (wc.writePermission /\ wc.readPermission)
               /\ ~(wc.writePermission /\ wc.readPermission)
                    => /\ ret = "false"
                       /\ isProgramError
                       /\ ~Did("open")
                       /\ ~Did("write")
                       /\ ~Did("unlink")
                       /\ linked = snap.linked
                       /\ data = snap.data)

\* elevation was attempted on the read-only file, write stayed denied and
\* the file was skipped
ElevationExactlyWhenDeniedWitness ==
    /\ AtReturn
    /\ Config.force_delete
    /\ filePath = "ro"
    /\ Did("elevate")
    /\ ~wc.failedToRetrievePermissions
    /\ ~wc.writePermission
    /\ ret = "false"
    /\ isProgramError

\* C12: run with effective uid 0 on a file that root does not own, the
\* engine changes nothing: no chmod, no open for writing, no overwrite, no
\* rename, no unlink.
RootSafety ==
    ( /\ Config.euidRoot
      /\ snap # NoSnapshot
      /\ Owner(Resolve(filePath)) = "other" )
    => /\ \A s \in MutatingSteps : ~Did(s)
       /\ Untouched

\* C13: the open loop makes at most 10 attempts, each failed attempt counts
\* up and changes nothing in the file system, and when all 10 fail the call
\* fails with the fatal flag set and without write, permission strip,
\* rename or unlink.
OpenRetriesBounded ==
    /\ [](attempts <= MaxOpenAttempts)
    /\ [](pc = "open" => attempts < MaxOpenAttempts)
    /\ [][pc = "open"
            => /\ <<linked, mode, data>>' = <<linked, mode, data>>
               /\ pc' = "open" => attempts' = attempts + 1]_vars
    /\ []((AtReturn /\ attempts = MaxOpenAttempts)
            => /\ ret = "false"
               /\ isProgramError
               /\ "ERROR" \in logged
               /\ \A s \in {"open", "write", "chmod000", "rename", "scrub",
                             "unlink"} : ~Did(s)
               /\ linked = snap.linked
               /\ data = snap.data)

\* ten attempts failed on a file that passed the gate
OpenRetriesBoundedWitness ==
    /\ AtReturn
    /\ filePath = "a"
    /\ attempts = MaxOpenAttempts
    /\ Did("gate")
    /\ ret = "false"

\* C14: the pass count is at least 1 after parsing, so a non-empty file is
\* unlinked only after at least one overwrite.
PassCountAtLeastOne ==
    ( /\ AtReturn
      /\ Did("unlink")
      /\ FileSize(Resolve(filePath)) > 0 )
    => /\ Config.overwriteCount >= 1
       /\ Did("write")

\* the writes a secure pass makes to one block: the pattern loop, then the
\* three closing writes
PatternLoopSchedule ==
    <<"0x00", "0xFF", "random", "0xAA", "0x55", "random",
      "0x3D", "0xC2", "random", "0x8E", "0x4E", "random">>
ClosingSchedule == <<"0x00", "0xFF", "random">>
WritesPerBlock == Len(PatternLoopSchedule) + Len(ClosingSchedule)

\* the region of block b of the file
BlockStart(b) == b * bufferSize
BlockLength(b) == Min((b + 1) * bufferSize, fileSize) - b * bufferSize

\* no write of the stream has failed
StreamGood == file = "good"

\* C15: in a secure pass the writes of the pattern loop on a block are the
\* patterns 0x00, 0xFF, 0xAA, 0x55, 0x3D, 0xC2, 0x8E, 0x4E in this order,
\* a random write following exactly the 2nd, 4th, 6th and 8th of them, and
\* every one of these writes covers the whole region of the block.
SecureScheduleOrder ==
    (Config.secure_mode /\ StreamGood)
    => \A n \in 1..Len(writes) :
        LET q == (n - 1) % WritesPerBlock
            b == (n - 1) \div WritesPerBlock
        IN  q < Len(PatternLoopSchedule)
            => /\ writes[n].fill = PatternLoopSchedule[q + 1]
               /\ writes[n].offset = BlockStart(b)
               /\ writes[n].size = BlockLength(b)

\* the pattern loop has run to its end on the second block of a file
SecureScheduleOrderWitness ==
    /\ Config.secure_mode
    /\ StreamGood
    /\ pc = "dod_zero"
    /\ offset > 0
    /\ Len(writes) = WritesPerBlock + Len(PatternLoopSchedule)

\* C16: in a secure pass the pattern loop on a block is followed by exactly
\* three writes to the same region, all 0x00, all 0xFF, random; when the
\* block is done its bytes on disk are those of that random write, and with
\* verify they are the bytes kept in lastRandomData.
ClosingWritesOrder ==
    (Config.secure_mode /\ StreamGood)
    => /\ \A n \in 1..Len(writes) :
            LET q == (n - 1) % WritesPerBlock
                b == (n - 1) \div WritesPerBlock
            IN  q >= Len(PatternLoopSchedule)
                => /\ writes[n].fill =
                        ClosingSchedule[q + 1 - Len(PatternLoopSchedule)]
                   /\ writes[n].offset = BlockStart(b)
                   /\ writes[n].size = BlockLength(b)
       /\ pc \in {"block", "verify"}
            => /\ Len(writes) % WritesPerBlock = 0
               /\ \A k \in 1..Min(offset, fileSize) :
                    /\ content[k] \in RandomBytes
                    /\ Config.verify => lastRandomData[k] = content[k]
       /\ pc = "verify"
            => Len(writes) * bufferSize =
                    WritesPerBlock * offset

\* a secure pass with verify has written both blocks of a file
ClosingWritesOrderWitness ==
    /\ Config.secure_mode
    /\ Config.verify
    /\ StreamGood
    /\ pc = "verify"
    /\ Len(writes) = 2 * WritesPerBlock
    /\ \E k \in 1..fileSize : content[k] # 0

\* C17: a pass that is not secure writes block j of the file, of size B
\* except for a shorter last one, once and in order: ceil(S/B) writes, write
\* j covering [j*B, min((j+1)*B, S)).
BlockSplitting ==
    (~Config.secure_mode /\ StreamGood)
    => /\ \A n \in 1..Len(writes) :
            /\ writes[n].fill = "random"
            /\ writes[n].offset = BlockStart(n - 1)
            /\ writes[n].size = BlockLength(n - 1)
       /\ pc = "verify"
            => Len(writes) = (fileSize + bufferSize - 1) \div bufferSize

\* a file one byte longer than the block got a whole block and one byte
BlockSplittingWitness ==
    /\ ~Config.secure_mode
    /\ StreamGood
    /\ pc = "verify"
    /\ fileSize = bufferSize + 1
    /\ Len(writes) = 2
    /\ writes[1].size = bufferSize
    /\ writes[2].size = 1

\* C18: the block size is asked for once per file.
BlockSizeQueriedOnce == queries <= 1

\* C19: when a verifying pass returns 0, the bytes on disk are the bytes
\* kept in lastRandomData.
VerifierRoundTrip ==
    (pc = "pass_loop" /\ Config.verify /\ passResult = 0)
    => content = lastRandomData

\* C20: with keep_files, a run of the engine on a non-empty file that has
\* been through a run already leaves what that run left: the file at its
\* path with its mode, every byte overwritten when a pass is configured,
\* and the same result, verification outcome and fatal flag (both runs
\* without a failure of the environment; the size of a file never changes).
KeepModeIdempotent ==
    ( /\ AtReturn
      /\ once # NoSnapshot
      /\ once.clean
      /\ CleanRun )
    => /\ Outcome = once.outcome
       /\ linked[filePath] = "path"
       /\ (ret = "true" /\ Config.overwriteCount >= 1 /\ ~Config.dry_run)
            => data[filePath] = "random"

\* the read-only file was forced and overwritten in the first run and
\* overwritten again in the second
KeepModeIdempotentWitness ==
    /\ AtReturn
    /\ argn = MaxRuns
    /\ filePath = "ro"
    /\ Config.force_delete
    /\ once # NoSnapshot
    /\ once.clean
    /\ CleanRun
    /\ once.outcome.fs.mode["ro"] # InitMode("ro")
    /\ once.outcome.fs.data["ro"] = "random"
    /\ Did("write")
    /\ ret = "true"

----------------------------------------------------------------------------
\* C21: a directory given without -r is skipped with a warning: while
\* processPath handles it no step changes the file system or the error flag,
\* none enters shredFile or the directory loop, and the call returns having
\* logged a WARNING.
DirectoryWithoutRecursiveSkipped ==
    /\ [][(path # "" /\ is_directory(path) /\ ~Config.recursive) =>
             /\ <<linked, mode, data>>' = <<linked, mode, data>>
             /\ isProgramError' = isProgramError
             /\ filePath' = ""
             /\ pc' \in {"path_ret", "main"}]_vars
    /\ [](pc = "path_ret" /\ is_directory(path) /\ ~Config.recursive =>
             "WARNING" \in logged)

DirectoryWithoutRecursiveSkippedWitness ==
    /\ pc = "path_ret" /\ path = "d"
    /\ ~Config.recursive
    /\ "WARNING" \in logged
    /\ FileSystem = InitFileSystem

\* C22: after a descent the directory is removed only by the walker's last
\* step and only when keep is false, dry_run is false and the directory is
\* empty; when that holds the step removes it or reports the failed removal,
\* and otherwise it leaves the file system alone and logs why.
DirectoryRemovedIffEmptied ==
    /\ [][pc = "dir_end" =>
             LET cond == ~Config.keep_files /\ ~Config.dry_run
                          /\ DirIsEmpty(path)
             IN  /\ linked'[path] = "none" => cond
                 /\ cond => \/ linked'[path] = "none"
                             \/ (linked' = linked /\ "ERROR" \in logged'
                                    /\ isProgramError')
                 /\ ~cond => /\ linked' = linked
                              /\ isProgramError' = isProgramError
                              /\ logged' \cap {"WARNING", "DRY_RUN"} # {}
                 /\ <<mode, data>>' = <<mode, data>>]_vars
    /\ [][\A d \in Dirs : linked[d] # linked'[d] =>
             pc = "dir_end" /\ path = d]_vars

DirectoryRemovedIffEmptiedWitness ==
    /\ pc = "path_ret" /\ path = "d"
    /\ linked["d"] = "none"
    /\ \A f \in Objects : f \in {"d/f", "d/l"} => linked[f] = "none"

\* C23: a path that is no symbolic link and is neither a regular file nor a
\* directory (it may not exist at all) is logged at ERROR and sets the error
\* flag, under dry_run too, and the file system is as it was.
InvalidPathIsFatal ==
    [][(pc = "processPath" /\ ~IsSymlink(path) /\ ~is_directory(path)
          /\ ~is_regular_file(path)) =>
         /\ "ERROR" \in logged'
         /\ isProgramError'
         /\ pc' = "path_ret"
         /\ <<linked, mode, data>>' = <<linked, mode, data>>]_vars

InvalidPathIsFatalWitness ==
    /\ pc = "path_ret" /\ path = "x"
    /\ Config.dry_run
    /\ isProgramError /\ "ERROR" \in logged
    /\ FileSystem = InitFileSystem

\* C24: failure isolation.  The paths of the command line are taken one
\* after the other, each once and in order, whatever earlier paths did to the
\* error flag, and main returns only after the last one; inside a descent
\* the iterator goes on from where it was after every shredFile call,
\* whatever the call returned, and hands every regular file it meets to
\* shredFile.
FailureIsolation ==
    /\ [][argn' # argn =>
             /\ pc = "main" /\ pc' = "processPath"
             /\ argn' = argn + 1 /\ argn' <= Len(fileArgs)
             /\ path' = fileArgs[argn']]_vars
    /\ [](pc = "done" => argn = Len(fileArgs))
    /\ <>(pc = "done")
    /\ [][pc = "shred_ret" /\ Resolve(path) \in Dirs =>
             pc' = "dir_iter" /\ entryIdx' = entryIdx]_vars
    /\ [][pc = "dir_iter" /\ entryIdx <= Len(DirEntries(path)) =>
             /\ entryIdx' = entryIdx + 1
             /\ is_regular_file(DirEntries(path)[entryIdx]) =>
                    /\ pc' = "shredFile"
                    /\ filePath' = DirEntries(path)[entryIdx]]_vars

FailureIsolationWitness ==
    /\ pc = "shredFile" /\ path = "d" /\ filePath = "d/l"
    /\ argn = 2 /\ fileArgs[1] = "x"
    /\ isProgramError
    /\ linked["d/f"] = "temp"

\* C25: when shredFile returns for a file it renamed into the temporary
\* directory, no file is left at the temporary path, whether the removal
\* worked or not.
NoOrphanAtTempPath ==
    (AtReturn /\ Did("rename")) => linked[filePath] # "temp"

\* C26: the passes of a file come one after the other, and between two
\* passes the file is synchronized to disk: a pass begins only after the
\* writes of the pass before it were followed by an fsync.
PassesSyncedInOrder ==
    /\ [][i' # i => (i' = i + 1 \/ i' = 0)]_vars
    /\ [](\A j, k \in 1..Len(steps) :
            (j < k /\ steps[j] = "write" /\ steps[k] = "write") =>
                \E m \in (j + 1)..(k - 1) : steps[m] = "fsync")

\* position of a step in the order shredFile's last part follows; 0 for the
\* steps before the pass loop and for the mutex
StepRank(s) ==
    CASE s = "write" -> 1
      [] s = "close" -> 2
      [] s = "fsync" -> 3
      [] s = "chmod000" -> 4
      [] s = "rename" -> 5
      [] s = "scrub" -> 6
      [] s = "unlink" -> 7
      [] OTHER -> 0

\* C27: for a file whose stream was opened the steps come in the order
\* passes, close, fsync, chmod 000, rename, scrub, unlink: each of them
\* happens at most once (the writes excepted) and after all those before it
\* in that order; the unlink comes after all the passes, the close and the
\* fsync, a rename has the chmod before it and the scrub after it, and once
\* the stream is closed no step changes the file's contents but the unlink.
UnlinkSequenceOrder ==
    /\ [](Did("open") =>
            /\ \A j, k \in 1..Len(steps) :
                  (j < k /\ StepRank(steps[j]) > 0 /\ StepRank(steps[k]) > 0) =>
                      \/ StepRank(steps[j]) < StepRank(steps[k])
                      \/ steps[j] = "write" /\ steps[k] = "write"
            /\ Did("unlink") =>
                  /\ i >= Config.overwriteCount
                  /\ Did("close") /\ Did("fsync")
                  /\ file = "closed"
            /\ Did("rename") => Did("chmod000") /\ Did("scrub"))
    /\ [][(Did("close") /\ filePath' = filePath) =>
             \/ data' = data
             \/ Did("unlink")']_vars

UnlinkSequenceOrderWitness ==
    /\ AtReturn /\ ret = "true"
    /\ Config.overwriteCount = 2
    /\ \E n \in 1..Len(steps) :
          /\ steps[n] = "write" /\ steps[n + 1] = "write"
          /\ Len(steps) = n + 9
          /\ [k \in 1..8 |-> steps[n + 1 + k]] =
                <<"close", "fsync", "lock", "chmod000", "rename", "scrub",
                  "unlock", "unlink">>

\* the mutex is held when step k is taken: a lock came before it and no
\* unlock in between
HeldAt(k) ==
    \E j \in 1..(k - 1) :
        /\ steps[j] = "lock"
        /\ \A m \in (j + 1)..(k - 1) : steps[m] # "unlock"

\* C28: fileMutex is held across the whole chmod, rename, scrub and unlink
\* sequence of a file whose stream was opened: each of these steps is taken
\* between the lock and the unlock.
MutexHeldThroughUnlink ==
    Did("open") =>
        \A k \in 1..Len(steps) :
            steps[k] \in {"chmod000", "rename", "scrub", "unlink"} => HeldAt(k)

\* C29: every write of a pass, secure or not, lies inside [0, size), size
\* being the file size shredFile read before the first pass: no write starts
\* at or goes past size, the file keeps its size through all passes, and when
\* the block loop of a pass is over with the stream good every byte of
\* [0, size) was written in that pass.
WritesInsideFile ==
    /\ \A k \in 1..Len(writes) :
          /\ writes[k].offset >= 0
          /\ writes[k].size >= 1
          /\ writes[k].offset < fileSize
          /\ writes[k].offset + writes[k].size <= fileSize
    /\ Len(content) = fileSize
    /\ (pc = "verify" /\ StreamGood) =>
          \A b \in 0..(fileSize - 1) :
              \E k \in 1..Len(writes) :
                  /\ writes[k].offset <= b
                  /\ b < writes[k].offset + writes[k].size

WritesInsideFileWitness ==
    /\ pc = "verify" /\ StreamGood
    /\ i = 1
    /\ fileSize = MaxSize /\ bufferSize = FrSize
    /\ fileSize % bufferSize # 0
    /\ \E k \in 1..Len(writes) :
          writes[k].offset + writes[k].size = fileSize

\* what std::equal reports for block b of the fallback: the bytes read into
\* verifyBuffer against the bytes of lastRandomData at the block's offset
BlockMismatch(b) ==
    \E k \in 1..BlockLength(b) :
        CharOf(ReadBack(BlockStart(b) + k)) # lastRandomData[BlockStart(b) + k]

\* blocks of the fallback's loop: offsets 0, bufferSize, ... below fileSize
FallbackBlocks == {b \in 0..(fileSize - 1) : BlockStart(b) < fileSize}

\* C30: with verify, the outcome of a pass is selected by the hasher's
\* return value: 0 verifies the pass, 2 fails it, and 1 (the file could not
\* be opened for hashing), which is also the value when the hasher is not
\* built in, leaves the outcome to the block-by-block comparison, which
\* fails the pass when some block differs.  Without verify every pass
\* returns 0.
VerificationOutcomeSelection ==
    [][pc = "verify" =>
         IF ~Config.verify THEN passResult' = 0 /\ hashRet' = -1
         ELSE /\ hashRet' \in {0, 1, 2}
              /\ ~Config.OPENSSL_FOUND => hashRet' = 1
              /\ hashRet' = 0 => passResult' = 0
              /\ hashRet' = 2 => passResult' = 1
              /\ hashRet' = 1 =>
                    passResult' =
                        (IF \E b \in FallbackBlocks : BlockMismatch(b)
                         THEN 1 ELSE 0)
              /\ verificationFailed' =
                    (verificationFailed \/ passResult' = 1)]_vars

\* the hasher found the digests different and the bytes read back by the
\* fallback would have matched: the pass fails all the same
VerificationOutcomeSelectionWitness ==
    /\ pc = "pass_loop" /\ i >= 1
    /\ Config.verify /\ Config.OPENSSL_FOUND
    /\ hashRet = 2 /\ passResult = 1
    /\ FallbackEqual

\* C31: what the permission gate reports is the read and the write bit of
\* the mode triple that matches the invoker's relation to the file, or true
\* for both when the effective user is root; nothing else enters the result.
GateResultIsTriple ==
    (pc = "force" /\ ~wc.failedToRetrievePermissions) =>
        LET f == Resolve(filePath) IN
        /\ wc.writePermission = (Config.euidRoot \/ mode[f]["w"])
        /\ wc.readPermission = (Config.euidRoot \/ mode[f]["r"])

\* C32: the mode the elevation gives to chmod is rwxrwxrwx when the file
\* had an execute bit for its owner, its group or the others, and rw-rw-rw-
\* when it had none (the file's mode having been read).
ElevationKeepsExecute ==
    [][(pc = "cp_chmod" /\ "WARNING" \notin logged) =>
         chmodMode' = IF ExecutableTestAllBits(st_mode) THEN ModeRwxRwxRwx
                      ELSE ModeRwRwRw]_vars

\* C33: when the removal after the overwrite fails (the file is at neither
\* path removable) shredFile logs an ERROR, sets the error flag and returns
\* false.
UnlinkFailureIsFatal ==
    [][(pc = "unlink" /\ linked'[filePath] # "none") =>
         /\ "ERROR" \in logged'
         /\ isProgramError'
         /\ ret' = "false"
         /\ pc' = "shred_ret"]_vars

UnlinkFailureIsFatalWitness ==
    /\ AtReturn /\ Did("unlock") /\ ~Did("unlink")
    /\ linked[filePath] # "none"
    /\ ret = "false" /\ isProgramError /\ "ERROR" \in logged

\* C34: a failure inside the metadata step (the chmod or the rename throws)
\* is not fatal: the step leaves the error flag as it is and shredFile goes
\* on to the removal.
ScrubFailureNotFatal ==
    [][pc = "obfuscate" =>
         /\ isProgramError' = isProgramError
         /\ pc' = "unlink"
         /\ ret' = ret]_vars

ScrubFailureNotFatalWitness ==
    /\ pc = "unlink"
    /\ Did("chmod000") /\ ~Did("rename") /\ Did("unlock")
    /\ ~isProgramError

\* C37: a failed verification never sets the error flag: no step of the
\* pass loop changes it, the file whose verification failed is still at its
\* path when shredFile returns true without having entered the removal, and
\* when the file is the first path of the command line and no ERROR was
\* logged for it the flag is still clear, so that main returns 0 for it.
VerificationFailureNotFatal ==
    /\ [][pc = "pass" => isProgramError' = isProgramError]_vars
    /\ []((AtReturn /\ verificationFailed) =>
             /\ ret = "true"
             /\ linked[filePath] = "path"
             /\ ~Did("lock") /\ ~Did("unlink")
             /\ (argn = 1 /\ path = filePath /\ "ERROR" \notin logged) =>
                    ~isProgramError)
    /\ [](pc = "done" => exitStatus = (IF isProgramError THEN 1 ELSE 0))

VerificationFailureNotFatalWitness ==
    /\ AtReturn /\ verificationFailed
    /\ path = "a" /\ filePath = "a"
    /\ failedAt = 0
    /\ data["a"] = "random" /\ linked["a"] = "path"
    /\ ~Config.keep_files
    /\ ret = "true" /\ ~isProgramError

\* C39: when the rename into the temporary directory failed after the
\* permissions were revoked, shredFile still tries the removal, which then
\* acts on the original path: if it works the file is gone, true is returned
\* and neither the error flag nor the log gets an error; if it does not the
\* file is still at its original path, with no permission bit left.
RenameFailureFallsBack ==
    /\ [][(pc = "obfuscate" /\ Did("chmod000")' /\ ~Did("rename")') =>
             pc' = "unlink"]_vars
    /\ [][(pc = "unlink" /\ Did("chmod000") /\ ~Did("rename")) =>
             \/ /\ linked'[filePath] = "none"
                /\ Did("unlink")'
                /\ ret' = "true"
                /\ isProgramError' = isProgramError
                /\ logged' = logged
             \/ /\ linked'[filePath] = "path"
                /\ mode'[Resolve(filePath)] = ModeNone
                /\ ret' = "false"]_vars

RenameFailureFallsBackWitness ==
    /\ AtReturn
    /\ Did("chmod000") /\ ~Did("rename") /\ Did("unlink")
    /\ linked[filePath] = "none"
    /\ ret = "true" /\ ~isProgramError

\* C38: the walk removes no directory but the one the command line named,
\* at the end of its descent; a directory with a subdirectory beneath it is
\* never removed, also when every regular file beneath it was shredded and
\* unlinked.
OnlyRootDirectoryRemoved ==
    /\ [][\A d \in Dirs : linked'[d] # linked[d] =>
             /\ pc = "dir_end"
             /\ d = path
             /\ d = fileArgs[argn]]_vars
    /\ [](\A d \in Dirs :
            (\E k \in 1..Len(DirEntries(d)) : DirEntries(d)[k] \in Dirs) =>
                linked[d] = "path")

OnlyRootDirectoryRemovedWitness ==
    /\ pc = "path_ret" /\ path = "n"
    /\ linked["n/s/f"] = "none"
    /\ linked["n/s"] = "path" /\ linked["n"] = "path"
    /\ ~Config.keep_files
    /\ "WARNING" \in logged

\* C35: syncFile gives up after its retries without setting the error
\* flag; when it returns, either an fopen succeeded, and then the file was
\* fsync'd and the handle closed, or every fopen failed, and then a WARNING
\* was logged.
FsyncRetriedThenWarned ==
    /\ openCount <= SyncTurns
    /\ ~isProgramError
    /\ pc = "sf_ret" =>
          \/ synced /\ syncHandle = "closed"
          \/ ~synced /\ syncHandle = "null" /\ "WARNING" \in logged

\* the token at position k of argv is the count of a -n that stands alone
\* right before it
IsCountOfN(k) == k > 2 /\ argv[k - 1] = <<"-", "n">>

\* every -n that stands alone is followed by a number, which is not itself
\* followed by another: the command lines the claim speaks of
NextTokenForm ==
    \A k \in 2..Len(argv) :
        argv[k] = <<"-", "n">> =>
            /\ k < Len(argv)
            /\ ~stoiThrows(argv[k + 1])
            /\ argv[k + 1][1] # "-"

\* the paths of the command line: the tokens that are neither flags nor
\* the count of a -n, up to position k
RECURSIVE TargetPaths(_)
TargetPaths(k) ==
    IF k < 2 THEN <<>>
    ELSE IF argv[k][1] = "-" \/ IsCountOfN(k) THEN TargetPaths(k - 1)
    ELSE Append(TargetPaths(k - 1), argv[k])

\* C36: -n takes its count inlined or from the next token; on a command
\* line where every lone -n is followed by a number, wherever the -n
\* stands, parsing does not end in an error exit when a path is named, and
\* when it returns the paths are the tokens that are neither flags nor such
\* a count.
NextTokenConsumedAsCount ==
    NextTokenForm =>
        /\ (pc = "pa_exit" => TargetPaths(Len(argv)) = <<>>)
        /\ (pc = "pa_ret" => fileArgs = TargetPaths(Len(argv)))

====
